---- MODULE Spec2Model ----
(***************************************************************************)
(* watcheRS, src/main.rs: the append engine.  Several processes run the    *)
(* `write` sub-command on the same Target File, each in locked mode        *)
(* (write_lock) or unlocked mode (write_nolock); one further process, ext, *)
(* is a foreign holder of fcntl byte-range locks.  Every system call of a  *)
(* writer is one step, so that the processes interleave between calls.     *)
(***************************************************************************)
EXTENDS Integers, Sequences, FiniteSets, TLC

\* ---------------------------------------------------------------- bounds
MaxTime == 3          \* the wall clock runs 0..MaxTime
MaxInterval == 2      \* `--interval` is drawn from 1..MaxInterval
MaxTicks == 3         \* the writers complete at most MaxTicks sleeps in all
DayLen == 2           \* clock units per local day (HH:MM:SS.mmm wraps)

\* ------------------------------------------------------- program constants
LINE_SIZE == 13       \* static LINE_SIZE
NOW_STR_LEN == 12     \* length of "HH:MM:SS.mmm"
NEWLINE_LEN == 1      \* the "\n" writeln! adds
LOCK_START == 0       \* usize::MIN

Writers == {"w1", "w2"}
Ext == "ext"
\* ranges the foreign process may lock: one overlapping every writer's range,
\* one far beyond the end of the file
ExtRanges == {[off |-> 0, len |-> 1], [off |-> 1000, len |-> 1]}
ExtHead == [owner |-> Ext, off |-> 0, len |-> 1]

VARIABLES
    pc,         \* position of each writer process
    mode,       \* "lock" | "nolock": the --use-locking flag
    interval,   \* duration of the sleep
    wake,       \* time at which the running sleep is over
    file_size,  \* write_lock's local file_size (S)
    locks,      \* fcntl record locks held on the file: [owner, off, len]
    file,       \* the Target File: the sequence of pieces written to it
    time,       \* the wall clock
    out,        \* standard output of each process
    sleeps,     \* history: completed sleeps of each writer
    attempts,   \* history: Write Attempts started by each writer
    written,    \* history: write_line calls that returned Ok
    ext_away,   \* history: ext has been without its lock on [0, 1) since Init
    is_file,    \* the target path denotes an existing regular file
    now,        \* the instant Local::now() returned to write_line
    now_str     \* the text write_line formatted from it

vars == <<pc, mode, interval, wake, file_size, locks, file, time,
          out, sleeps, attempts, written, ext_away, is_file, now, now_str>>

\* ---------------------------------------------------------------- helpers
RECURSIVE Size(_)
\* st_size: the sum of the lengths of the pieces
Size(f) == IF f = <<>> THEN 0 ELSE f[1].len + Size(Tail(f))

\* chrono's format of an instant: the time of day, which wraps at midnight
FormatNow(t) == t % DayLen

\* two byte ranges [off, off+len) intersect
Overlap(a, b) == a.off < b.off + b.len /\ b.off < a.off + a.len

\* variant: a lock request that is never refused
ConflictNever(p, r) == FALSE

\* F_SETLK is refused when another process holds a lock on an intersecting range
Conflict(p, r) == \E l \in locks : l.owner # p /\ Overlap(l, r)

\* variant: only the region about to be appended is locked
LockRangeTail(S) == [off |-> S, len |-> LINE_SIZE]

\* the range write_lock asks for: [usize::MIN, file_size + LINE_SIZE)
LockRange(S) == [off |-> LOCK_START, len |-> S + LINE_SIZE]

Held(p) == {l \in locks : l.owner = p}

\* variant: the file is opened with truncate(true) semantics on every write
WriteTruncating(f, x) == <<x>>

\* the handle is opened with append(true): every write lands at the end
AppendPiece(f, x) == Append(f, x)

\* variant: only a file that shrank counts as changed
SizeMismatchLess(p) == Size(file) < file_size[p]

\* variant: the size under the lock is always taken for changed
SizeMismatchAlways(p) == TRUE

\* get_size(lock.deref()) != file_size
SizeMismatch(p) == Size(file) # file_size[p]

RECURSIVE Sum(_, _)
Sum(f, S) == IF S = {} THEN 0
             ELSE LET x == CHOOSE y \in S : TRUE IN f[x] + Sum(f, S \ {x})

\* the sleeps completed so far, over all writers
TotalSleeps == Sum(sleeps, Writers)

\* 00:00:00.000
Midnight == [hour |-> 0, minute |-> 0, second |-> 0, millis |-> 0]

\* the old content of the file when the first writer opens it
OldLine == <<[by |-> "old", kind |-> "text", ts |-> 0, at |-> 0, len |-> NOW_STR_LEN],
             [by |-> "old", kind |-> "nl", ts |-> 0, at |-> 0, len |-> NEWLINE_LEN]>>

\* ------------------------------------------------------------------- Init
Init ==
    /\ pc = [p \in Writers |-> "init"]
    /\ mode = [p \in Writers |-> "nolock"]
    /\ interval = [p \in Writers |-> 1]
    /\ wake = [p \in Writers |-> 0]
    /\ file_size = [p \in Writers |-> 0]
    /\ locks \in {{}, {ExtHead}}
    /\ ext_away = (locks = {})
    /\ file = <<>>
    /\ time = 0
    /\ out = [p \in Writers |-> <<>>]
    /\ sleeps = [p \in Writers |-> 0]
    /\ attempts = [p \in Writers |-> 0]
    /\ written = [p \in Writers |-> 0]
    /\ is_file = TRUE
    /\ now = Midnight
    /\ now_str = <<>>

\* ---------------------------------------------------------------- actions
\* variant: the lock of a dead process stays behind
AbortLeak(p) ==
    /\ pc' = [pc EXCEPT ![p] = "dead"]
    /\ UNCHANGED locks

\* a panic (expect) ends the process; its record locks die with it
Abort(p) ==
    /\ pc' = [pc EXCEPT ![p] = "dead"]
    /\ locks' = locks \ Held(p)

\* variant: the loop goes round without sleeping
BackToSleepNoWait(p) ==
    /\ pc' = [pc EXCEPT ![p] = "sleep"]
    /\ wake' = [wake EXCEPT ![p] = time]

\* the loop goes back to sleep(duration)
BackToSleep(p) ==
    /\ pc' = [pc EXCEPT ![p] = "sleep"]
    /\ wake' = [wake EXCEPT ![p] = time + interval[p]]

\* write(): open the file in append+create mode and enter the loop of the mode.
\* The writers are launched while the clock reads 0; a later start is a longer
\* first sleep.
write(p, locking, ivl, ok) ==
    /\ pc[p] = "init" /\ time = 0
    /\ IF ok
       THEN /\ mode' = [mode EXCEPT ![p] = IF locking THEN "lock" ELSE "nolock"]
            /\ interval' = [interval EXCEPT ![p] = ivl]
            /\ wake' = [wake EXCEPT ![p] = time + ivl]
            /\ pc' = [pc EXCEPT ![p] = "sleep"]
            /\ UNCHANGED locks
       ELSE /\ Abort(p)
            /\ UNCHANGED <<mode, interval, wake>>
    /\ UNCHANGED <<file_size, file, time, out, sleeps, attempts, written,
                   ext_away>>
    /\ is_file' = (is_file \/ ok)
    /\ UNCHANGED <<now, now_str>>

\* variant: the unlocked loop takes the way of the locked one
write_nolock_sleep_locking(p) ==
    /\ pc[p] = "sleep" /\ mode[p] = "nolock"
    /\ time >= wake[p] /\ TotalSleeps < MaxTicks
    /\ sleeps' = [sleeps EXCEPT ![p] = @ + 1]
    /\ pc' = [pc EXCEPT ![p] = "measure"]
    /\ UNCHANGED <<mode, interval, wake, file_size, locks, file, time, out,
                   attempts, written, ext_away, is_file, now, now_str>>

\* write_nolock: sleep(*duration) returns; write_line is called next
write_nolock_sleep(p) ==
    /\ pc[p] = "sleep" /\ mode[p] = "nolock"
    /\ time >= wake[p] /\ TotalSleeps < MaxTicks
    /\ sleeps' = [sleeps EXCEPT ![p] = @ + 1]
    /\ pc' = [pc EXCEPT ![p] = "write_text"]
    /\ UNCHANGED <<mode, interval, wake, file_size, locks, file, time, out,
                   attempts, written, ext_away>>
    /\ UNCHANGED <<is_file, now, now_str>>

\* write_lock: sleep(*duration) returns; get_size is called next
write_lock_sleep(p) ==
    /\ pc[p] = "sleep" /\ mode[p] = "lock"
    /\ time >= wake[p] /\ TotalSleeps < MaxTicks
    /\ sleeps' = [sleeps EXCEPT ![p] = @ + 1]
    /\ pc' = [pc EXCEPT ![p] = "measure"]
    /\ UNCHANGED <<mode, interval, wake, file_size, locks, file, time, out,
                   attempts, written, ext_away>>
    /\ UNCHANGED <<is_file, now, now_str>>

\* variant: a size measured in an earlier tick is kept
write_lock_measure_once(p, ok) ==
    /\ pc[p] = "measure"
    /\ attempts' = [attempts EXCEPT ![p] = @ + 1]
    /\ IF ok
       THEN /\ file_size' = [file_size EXCEPT ![p] = IF @ # 0 THEN @ ELSE Size(file)]
            /\ pc' = [pc EXCEPT ![p] = "trylock"]
            /\ UNCHANGED locks
       ELSE /\ Abort(p)
            /\ UNCHANGED file_size
    /\ UNCHANGED <<mode, interval, wake, file, time, out, sleeps, written,
                   ext_away, is_file, now, now_str>>

\* write_lock: let file_size = get_size(&file).expect(..)
write_lock_measure(p, ok) ==
    /\ pc[p] = "measure"
    /\ attempts' = [attempts EXCEPT ![p] = @ + 1]
    /\ IF ok
       THEN /\ file_size' = [file_size EXCEPT ![p] = Size(file)]
            /\ pc' = [pc EXCEPT ![p] = "trylock"]
            /\ UNCHANGED locks
       ELSE /\ Abort(p)
            /\ UNCHANGED file_size
    /\ UNCHANGED <<mode, interval, wake, file, time, out, sleeps, written,
                   ext_away>>
    /\ UNCHANGED <<is_file, now, now_str>>

\* variant: a refused lock is fatal, like the other errors
lock_refused_fatal(p) ==
    /\ pc' = [pc EXCEPT ![p] = "dead"]
    /\ UNCHANGED <<locks, out, wake>>

\* variant: the attempt is skipped without the warning
lock_refused_silent(p) ==
    /\ BackToSleep(p)
    /\ UNCHANGED <<locks, out>>

\* variant: after the warning the attempt is made again at once
lock_refused_retry(p) ==
    /\ out' = [out EXCEPT ![p] = Append(@, "warn_lock")]
    /\ pc' = [pc EXCEPT ![p] = "measure"]
    /\ UNCHANGED <<locks, wake>>

\* write_lock: the else of the let-else: the warning, and continue
lock_refused(p) ==
    /\ out' = [out EXCEPT ![p] = Append(@, "warn_lock")]
    /\ BackToSleep(p)
    /\ UNCHANGED locks

\* variant: file_guard::lock, which waits until the range is free
write_lock_wait(p) ==
    /\ pc[p] = "trylock"
    /\ ~Conflict(p, LockRange(file_size[p]))
    /\ locks' = locks \cup {[owner |-> p,
                             off |-> LockRange(file_size[p]).off,
                             len |-> LockRange(file_size[p]).len]}
    /\ pc' = [pc EXCEPT ![p] = "recheck"]
    /\ UNCHANGED <<mode, interval, wake, file_size, file, time, out, sleeps,
                   attempts, written, ext_away>>
    /\ UNCHANGED <<is_file, now, now_str>>

\* variant: Lock::Shared, which the shared locks of other writers do not refuse
write_lock_try_shared(p) ==
    /\ pc[p] = "trylock"
    /\ IF ~(\E l \in Held(Ext) : Overlap(l, LockRange(file_size[p])))
       THEN /\ locks' = locks \cup {[owner |-> p,
                                     off |-> LockRange(file_size[p]).off,
                                     len |-> LockRange(file_size[p]).len]}
            /\ pc' = [pc EXCEPT ![p] = "recheck"]
            /\ UNCHANGED <<out, wake>>
       ELSE lock_refused(p)
    /\ UNCHANGED <<mode, interval, file_size, file, time, sleeps, attempts,
                   written, ext_away, is_file, now, now_str>>

\* write_lock: file_guard::try_lock(.., Exclusive, usize::MIN, file_size + LINE_SIZE)
\* and the let-else on its result.  F_SETLK never waits.
write_lock_try(p) ==
    /\ pc[p] = "trylock"
    /\ IF ~Conflict(p, LockRange(file_size[p]))
       THEN /\ locks' = locks \cup {[owner |-> p,
                                     off |-> LockRange(file_size[p]).off,
                                     len |-> LockRange(file_size[p]).len]}
            /\ pc' = [pc EXCEPT ![p] = "recheck"]
            /\ UNCHANGED <<out, wake>>
       ELSE lock_refused(p)
    /\ UNCHANGED <<mode, interval, file_size, file, time, sleeps, attempts,
                   written, ext_away>>
    /\ UNCHANGED <<is_file, now, now_str>>

\* variant: the size is not compared again under the lock
write_lock_norecheck(p, ok) ==
    /\ pc[p] = "recheck"
    /\ IF ~ok
       THEN Abort(p)
       ELSE pc' = [pc EXCEPT ![p] = "write_text"] /\ UNCHANGED locks
    /\ UNCHANGED <<mode, interval, wake, file_size, file, time, out, sleeps,
                   attempts, written, ext_away, is_file, now, now_str>>

\* write_lock: if get_size(lock.deref()).expect(..) != file_size { warn } else ..
write_lock_recheck(p, ok) ==
    /\ pc[p] = "recheck"
    /\ IF ~ok
       THEN Abort(p) /\ UNCHANGED out
       ELSE IF SizeMismatch(p)
            THEN /\ out' = [out EXCEPT ![p] = Append(@, "warn_size")]
                 /\ pc' = [pc EXCEPT ![p] = "drop"]
                 /\ UNCHANGED locks
            ELSE /\ pc' = [pc EXCEPT ![p] = "write_text"]
                 /\ UNCHANGED <<locks, out>>
    /\ UNCHANGED <<mode, interval, wake, file_size, file, time, sleeps,
                   attempts, written, ext_away>>
    /\ UNCHANGED <<is_file, now, now_str>>

\* write_line: Local::now(), and the first write of writeln!: the 12 characters.
\* The handle is in append mode: the piece lands at the end of the file.
write_line_text(p, ok) ==
    /\ pc[p] = "write_text"
    /\ attempts' = [attempts EXCEPT ![p] = IF mode[p] = "nolock" THEN @ + 1 ELSE @]
    /\ IF ok
       THEN /\ file' = AppendPiece(file, [by |-> p, kind |-> "text",
                                          ts |-> FormatNow(time), at |-> time,
                                          len |-> NOW_STR_LEN])
            /\ pc' = [pc EXCEPT ![p] = "write_nl"]
            /\ UNCHANGED locks
       ELSE /\ Abort(p)
            /\ UNCHANGED file
    /\ UNCHANGED <<mode, interval, wake, file_size, time, out, sleeps, written,
                   ext_away>>
    /\ UNCHANGED <<is_file, now, now_str>>

\* variant: the line is echoed as soon as it is written, before the flush
write_line_nl_echo(p, ok) ==
    /\ pc[p] = "write_nl"
    /\ IF ok
       THEN /\ file' = AppendPiece(file, [by |-> p, kind |-> "nl", ts |-> 0,
                                          at |-> 0, len |-> NEWLINE_LEN])
            /\ out' = [out EXCEPT ![p] = Append(@, "line")]
            /\ pc' = [pc EXCEPT ![p] = "sync"]
            /\ UNCHANGED locks
       ELSE /\ Abort(p)
            /\ UNCHANGED <<file, out>>
    /\ UNCHANGED <<mode, interval, wake, file_size, time, sleeps,
                   attempts, written, ext_away, is_file, now, now_str>>

\* write_line: the second write of writeln!: the newline
write_line_nl(p, ok) ==
    /\ pc[p] = "write_nl"
    /\ IF ok
       THEN /\ file' = AppendPiece(file, [by |-> p, kind |-> "nl", ts |-> 0,
                                          at |-> 0, len |-> NEWLINE_LEN])
            /\ pc' = [pc EXCEPT ![p] = "flush"]
            /\ UNCHANGED locks
       ELSE /\ Abort(p)
            /\ UNCHANGED file
    /\ UNCHANGED <<mode, interval, wake, file_size, time, out, sleeps,
                   attempts, written, ext_away>>
    /\ UNCHANGED <<is_file, now, now_str>>

\* write_line: file.flush()?; println!("{}", now_str)
write_line_flush(p, ok) ==
    /\ pc[p] = "flush"
    /\ IF ok
       THEN /\ out' = [out EXCEPT ![p] = Append(@, "line")]
            /\ pc' = [pc EXCEPT ![p] = "sync"]
            /\ UNCHANGED locks
       ELSE /\ Abort(p)
            /\ UNCHANGED out
    /\ UNCHANGED <<mode, interval, wake, file_size, file, time, sleeps,
                   attempts, written, ext_away>>
    /\ UNCHANGED <<is_file, now, now_str>>

\* write_line: file.sync_data()?; Ok(()), and the caller's expect
write_line_sync(p, ok) ==
    /\ pc[p] = "sync"
    /\ IF ok
       THEN /\ written' = [written EXCEPT ![p] = @ + 1]
            /\ IF mode[p] = "lock"
               THEN pc' = [pc EXCEPT ![p] = "drop"] /\ UNCHANGED wake
               ELSE BackToSleep(p)
            /\ UNCHANGED locks
       ELSE /\ Abort(p)
            /\ UNCHANGED <<written, wake>>
    /\ UNCHANGED <<mode, interval, file_size, file, time, out, sleeps,
                   attempts, ext_away>>
    /\ UNCHANGED <<is_file, now, now_str>>

\* variant: the guard is forgotten, the lock is kept across the sleep
write_lock_drop_leak(p) ==
    /\ pc[p] = "drop"
    /\ BackToSleep(p)
    /\ UNCHANGED <<mode, interval, file_size, locks, file, time, out, sleeps,
                   attempts, written, ext_away>>
    /\ UNCHANGED <<is_file, now, now_str>>

\* write_lock: drop(lock), and the loop goes round
write_lock_drop(p) ==
    /\ pc[p] = "drop"
    /\ locks' = locks \ Held(p)
    /\ BackToSleep(p)
    /\ UNCHANGED <<mode, interval, file_size, file, time, out, sleeps,
                   attempts, written, ext_away>>
    /\ UNCHANGED <<is_file, now, now_str>>

\* the foreign process takes a lock (F_SETLK, exclusive) on one of its ranges
ExtLock(r) ==
    /\ Held(Ext) = {}
    /\ ~Conflict(Ext, r)
    /\ locks' = locks \cup {[owner |-> Ext, off |-> r.off, len |-> r.len]}
    /\ UNCHANGED <<pc, mode, interval, wake, file_size, file, time, out,
                   sleeps, attempts, written, ext_away>>
    /\ UNCHANGED <<is_file, now, now_str>>

\* the foreign process releases its lock
ExtUnlock ==
    /\ Held(Ext) # {}
    /\ locks' = locks \ Held(Ext)
    /\ ext_away' = TRUE
    /\ UNCHANGED <<pc, mode, interval, wake, file_size, file, time, out,
                   sleeps, attempts, written>>
    /\ UNCHANGED <<is_file, now, now_str>>

\* the wall clock advances
Tick ==
    /\ time < MaxTime
    /\ time' = time + 1
    /\ UNCHANGED <<pc, mode, interval, wake, file_size, locks, file, out,
                   sleeps, attempts, written, ext_away>>
    /\ UNCHANGED <<is_file, now, now_str>>

\* the steps of one writer process
WriterNext(p) ==
    \/ \E locking \in BOOLEAN, ivl \in 1..MaxInterval, ok \in BOOLEAN :
          write(p, locking, ivl, ok)
    \/ write_nolock_sleep(p)
    \/ write_lock_sleep(p)
    \/ \E ok \in BOOLEAN : write_lock_measure(p, ok)
    \/ write_lock_try(p)
    \/ \E ok \in BOOLEAN : write_lock_recheck(p, ok)
    \/ \E ok \in BOOLEAN : write_line_text(p, ok)
    \/ \E ok \in BOOLEAN : write_line_nl(p, ok)
    \/ \E ok \in BOOLEAN : write_line_flush(p, ok)
    \/ \E ok \in BOOLEAN : write_line_sync(p, ok)
    \/ write_lock_drop(p)

ExtNext == (\E r \in ExtRanges : ExtLock(r)) \/ ExtUnlock

Next ==
    \/ \E p \in Writers : WriterNext(p)
    \/ ExtNext
    \/ Tick

\* every writer on the file, the foreign locker and the clock
Spec == Init /\ [][Next]_vars

\* a single writer, and nothing else touching the file or its locks; the file
\* may hold an old line when the writer opens it
InitSolo ==
    /\ pc = [p \in Writers |-> "init"]
    /\ mode = [p \in Writers |-> "nolock"]
    /\ interval = [p \in Writers |-> 1]
    /\ wake = [p \in Writers |-> 0]
    /\ file_size = [p \in Writers |-> 0]
    /\ locks = {}
    /\ ext_away = TRUE
    /\ file \in {<<>>, OldLine}
    /\ time = 0
    /\ out = [p \in Writers |-> <<>>]
    /\ sleeps = [p \in Writers |-> 0]
    /\ attempts = [p \in Writers |-> 0]
    /\ written = [p \in Writers |-> 0]
    /\ is_file = TRUE
    /\ now = Midnight
    /\ now_str = <<>>

NextSolo == WriterNext("w1") \/ Tick

SpecSolo == InitSolo /\ [][NextSolo]_vars

\* the scheduler runs every process that can take a step: a writer's system
\* calls return
SpecFair == Spec /\ \A p \in Writers : WF_vars(WriterNext(p))

\* ------------------------------------------------------------------- main
\* the sub-command on the command line; "none" when it is left out
Commands == {"none", "read", "write"}

\* args.command.unwrap_or(Action::Read{ sleep: 10u32, use_polling: false })
Selected(command) == IF command = "none" THEN "read" ELSE command

\* variant: the Read arm without its guard
main_unguarded(p, command) ==
    /\ pc[p] = "main"
    /\ IF Selected(command) = "read"
       THEN /\ mode' = [mode EXCEPT ![p] = "read"]
            /\ out' = [out EXCEPT ![p] = Append(@, "following")]
            /\ pc' = [pc EXCEPT ![p] = "tail"]
       ELSE /\ pc' = [pc EXCEPT ![p] = "init"]
            /\ UNCHANGED <<mode, out>>
    /\ UNCHANGED <<interval, wake, file_size, locks, file, time, sleeps,
                   attempts, written, ext_away, is_file, now, now_str>>

\* main: the match on the selected command.  The Read arm is guarded by
\* file.is_file() and calls tail, which prints "Following .."; the Write arm
\* calls write; the last arm prints "'..' is not a file!" and the match is
\* left for process::exit(1).
main(p, command) ==
    /\ pc[p] = "main"
    /\ IF Selected(command) = "read" /\ is_file
       THEN /\ mode' = [mode EXCEPT ![p] = "read"]
            /\ out' = [out EXCEPT ![p] = Append(@, "following")]
            /\ pc' = [pc EXCEPT ![p] = "tail"]
       ELSE IF Selected(command) = "write"
            THEN /\ pc' = [pc EXCEPT ![p] = "init"]
                 /\ UNCHANGED <<mode, out>>
            ELSE /\ mode' = [mode EXCEPT ![p] = "read"]
                 /\ out' = [out EXCEPT ![p] = Append(@, "not_a_file")]
                 /\ pc' = [pc EXCEPT ![p] = "exit1"]
    /\ UNCHANGED <<interval, wake, file_size, locks, file, time, sleeps,
                   attempts, written, ext_away, is_file, now, now_str>>

\* uu_tail::uumain returns (the file cannot be read, the output is closed, ..):
\* tail returns, the match is left and process::exit(1) is reached
tail_returns(p) ==
    /\ pc[p] = "tail"
    /\ pc' = [pc EXCEPT ![p] = "exit1"]
    /\ UNCHANGED <<mode, interval, wake, file_size, locks, file, time, out,
                   sleeps, attempts, written, ext_away, is_file, now, now_str>>

\* one process from its command line on; the path may or may not denote a
\* regular file
InitMain ==
    /\ pc = [p \in Writers |-> "main"]
    /\ mode = [p \in Writers |-> "nolock"]
    /\ interval = [p \in Writers |-> 1]
    /\ wake = [p \in Writers |-> 0]
    /\ file_size = [p \in Writers |-> 0]
    /\ locks = {}
    /\ ext_away = TRUE
    /\ file = <<>>
    /\ time = 0
    /\ out = [p \in Writers |-> <<>>]
    /\ sleeps = [p \in Writers |-> 0]
    /\ attempts = [p \in Writers |-> 0]
    /\ written = [p \in Writers |-> 0]
    /\ is_file \in BOOLEAN
    /\ now = Midnight
    /\ now_str = <<>>

NextMain ==
    \/ \E command \in Commands : main("w1", command)
    \/ tail_returns("w1")
    \/ WriterNext("w1")
    \/ Tick

SpecMain == InitMain /\ [][NextMain]_vars

\* --------------------------------------------------------- the timestamp
\* chrono: timestamp_subsec_millis() is below 1000, except inside a leap
\* second, which an instant represents as second 59 with 1000..1999
MILLIS_PER_SEC == 1000
LEAP_SECOND == 59

DigitChar == <<"0", "1", "2", "3", "4", "5", "6", "7", "8", "9">>

RECURSIVE Display(_)
\* {} of an unsigned integer: its decimal digits
Display(n) == IF n < 10 THEN <<DigitChar[n + 1]>>
              ELSE Display(n \div 10) \o <<DigitChar[(n % 10) + 1]>>

RECURSIVE ZeroPad(_, _)
\* {:0>w}: zeros on the left up to the width w, nothing is ever cut
ZeroPad(s, w) == IF Len(s) >= w THEN s ELSE ZeroPad(<<"0">> \o s, w)

\* {:0>3} of now.timestamp_subsec_millis()
Millis3(t) == ZeroPad(Display(t.millis), 3)

\* now.format("%H:%M:%S"); %S of an instant inside a leap second is 60
FORMAT_NOW(t) ==
    ZeroPad(Display(t.hour), 2) \o <<":">> \o
    ZeroPad(Display(t.minute), 2) \o <<":">> \o
    ZeroPad(Display(t.second + (t.millis \div MILLIS_PER_SEC)), 2)

\* format!("{}.{:0>3}", now.format(FORMAT_NOW), now.timestamp_subsec_millis())
NowStr(t) == FORMAT_NOW(t) \o <<".">> \o Millis3(t)

\* the instants Local::now() is taken from: the ends of the ranges of hour,
\* minute and second, and every value of the milliseconds
Instants ==
    {t \in [hour : {0, 23}, minute : {0, 59}, second : {0, LEAP_SECOND},
            millis : 0..(2 * MILLIS_PER_SEC - 1)] :
        t.millis >= MILLIS_PER_SEC => t.second = LEAP_SECOND}

\* write_line: let now = Local::now(); let now_str = format!(..)
write_line_format ==
    /\ now_str = <<>>
    /\ now_str' = NowStr(now)
    /\ UNCHANGED <<pc, mode, interval, wake, file_size, locks, file, time, out,
                   sleeps, attempts, written, ext_away, is_file, now>>

\* write_line is entered at any instant
InitFormat ==
    /\ pc = [p \in Writers |-> "write_text"]
    /\ mode = [p \in Writers |-> "nolock"]
    /\ interval = [p \in Writers |-> 1]
    /\ wake = [p \in Writers |-> 0]
    /\ file_size = [p \in Writers |-> 0]
    /\ locks = {}
    /\ ext_away = TRUE
    /\ file = <<>>
    /\ time = 0
    /\ out = [p \in Writers |-> <<>>]
    /\ sleeps = [p \in Writers |-> 1]
    /\ attempts = [p \in Writers |-> 0]
    /\ written = [p \in Writers |-> 0]
    /\ is_file = TRUE
    /\ now \in Instants
    /\ now_str = <<>>

NextFormat == write_line_format

SpecFormat == InitFormat /\ [][NextFormat]_vars

\* ---------------------------------------------------- locked writers only
\* the steps of a writer started with --use-locking whose system calls all
\* succeed
LockedNext(p) ==
    \/ \E ivl \in 1..MaxInterval : write(p, TRUE, ivl, TRUE)
    \/ write_lock_sleep(p)
    \/ write_lock_measure(p, TRUE)
    \/ write_lock_try(p)
    \/ write_lock_recheck(p, TRUE)
    \/ write_line_text(p, TRUE)
    \/ write_line_nl(p, TRUE)
    \/ write_line_flush(p, TRUE)
    \/ write_line_sync(p, TRUE)
    \/ write_lock_drop(p)

\* no foreign lock on the file
InitLocked == Init /\ locks = {}

NextLocked ==
    \/ \E p \in Writers : LockedNext(p)
    \/ Tick

\* every writer that can take a step takes one in the end, and the clock
\* goes on
SpecLocked ==
    /\ InitLocked /\ [][NextLocked]_vars
    /\ \A p \in Writers : WF_vars(LockedNext(p))
    /\ WF_vars(Tick)

\* ------------------------------------------------------------- properties
Range(s) == {s[i] : i \in 1..Len(s)}

\* a locked-mode writer between its successful try_lock and its drop(lock)
InLockedSection(p) ==
    /\ mode[p] = "lock"
    /\ pc[p] \in {"recheck", "write_text", "write_nl", "flush", "sync", "drop"}

\* the positions in the file of the texts p wrote
TextBy(p) == {i \in 1..Len(file) : file[i].by = p /\ file[i].kind = "text"}

\* the tick window of an instant, for a writer launched at 0
Window(t, ivl) == t \div ivl

\* p and q are locked-mode writers with the same period, both back in the sleep
\* (every write they started has been reported successful)
LockedPair(p, q) ==
    /\ p # q
    /\ pc[p] = "sleep" /\ pc[q] = "sleep"
    /\ mode[p] = "lock" /\ mode[q] = "lock"
    /\ interval[p] = interval[q]

\* C1 as stated (P3): two locked-mode writers never both report a successful
\* write in the same tick window; at least one of them sees contention.
C1_OneSuccessPerWindow ==
    \A p, q \in Writers : LockedPair(p, q) =>
        \A i \in TextBy(p), j \in TextBy(q) :
            Window(file[i].at, interval[p]) = Window(file[j].at, interval[q])
                => "warn_lock" \in Range(out[p]) \cup Range(out[q])

\* C1 amended: attempts that overlap never both succeed.  A locked-mode writer
\* reports a successful write only while it holds the lock and no other writer
\* holds one, and a try_lock made while another writer holds its lock ends the
\* attempt with the contention warning: nothing locked, nothing written.
C1_OverlappingAttempts ==
    [][\A p \in Writers :
        /\ (mode[p] = "lock" /\ written'[p] # written[p]) =>
               /\ Held(p) # {}
               /\ \A q \in Writers \ {p} : Held(q) = {} /\ ~InLockedSection(q)
        /\ (pc[p] = "trylock" /\ pc'[p] # "trylock"
                /\ \E q \in Writers \ {p} : Held(q) # {}) =>
               /\ out'[p] = Append(out[p], "warn_lock")
               /\ pc'[p] = "sleep"
               /\ locks' = locks /\ file' = file /\ written' = written
      ]_vars

\* two locked-mode writers have both written in the same window, and one of
\* them was refused the lock while the other held it
C1_Witness ==
    \E p, q \in Writers :
        /\ LockedPair(p, q)
        /\ \E i \in TextBy(p), j \in TextBy(q) :
              Window(file[i].at, interval[p]) = Window(file[j].at, interval[q])
        /\ "warn_lock" \in Range(out[p])
        /\ Held(Ext) = {} /\ ext_away

\* C2: at most one writer is between a successful try_lock and drop(lock), and
\* it holds the lock; no two locks of different processes intersect, whatever
\* the sizes the writers measured.
C2_MutualExclusion ==
    /\ \A p, q \in Writers : (InLockedSection(p) /\ InLockedSection(q)) => p = q
    /\ \A p \in Writers : InLockedSection(p) <=> Held(p) # {}
    /\ \A l, m \in locks : l.owner # m.owner => ~Overlap(l, m)

\* a writer is in its locked section with a lock on [0, 13) while the other,
\* which measured another size, is at its try_lock
C2_Witness ==
    \E p, q \in Writers :
        /\ InLockedSection(p) /\ pc[q] = "trylock"
        /\ file_size[p] # file_size[q]

\* C3 (P4): when the file no longer has the measured size S once the writer
\* holds the lock, the attempt (unless the re-measurement itself fails, which
\* is fatal) prints the race warning and writes nothing, and its next step
\* releases the lock and goes back to the sleep, the file still untouched.
C3_RaceDetected ==
    [][\A p \in Writers :
        /\ (pc[p] = "recheck" /\ Size(file) # file_size[p]
                /\ pc'[p] \notin {"recheck", "dead"}) =>
               /\ out'[p] = Append(out[p], "warn_size")
               /\ pc'[p] = "drop"
               /\ file' = file /\ written' = written
        /\ (pc[p] = "drop" /\ out[p] # <<>> /\ out[p][Len(out[p])] = "warn_size"
                /\ pc'[p] # "drop") =>
               /\ {l \in locks' : l.owner = p} = {}
               /\ pc'[p] = "sleep"
               /\ file' = file /\ written' = written
      ]_vars

\* a locked-mode writer is back in the sleep after a tick in which another
\* writer appended behind its back: one race warning, no line of its own
C3_Witness ==
    \E p \in Writers :
        /\ pc[p] = "sleep" /\ mode[p] = "lock"
        /\ out[p] = <<"warn_size">>
        /\ TextBy(p) = {} /\ written[p] = 0 /\ Held(p) = {}
        /\ file # <<>>

\* C4: a try_lock made while another process holds a lock on an intersecting
\* range prints one contention warning and goes back to the sleep, with nothing
\* locked and nothing written; and while ext has held its lock on [0, 1) since
\* before the run, a locked-mode writer has written nothing and, after N
\* completed ticks, printed exactly N contention warnings.
C4_ContentionSkip ==
    /\ [][\A p \in Writers :
            (pc[p] = "trylock" /\ pc'[p] # "trylock"
               /\ \E l \in locks : l.owner # p /\ l.off < file_size[p] + LINE_SIZE
                                   /\ 0 < l.off + l.len) =>
               /\ out'[p] = Append(out[p], "warn_lock")
               /\ pc'[p] = "sleep"
               /\ locks' = locks /\ file' = file /\ written' = written
         ]_vars
    /\ [](\A p \in Writers : (~ext_away /\ mode[p] = "lock") =>
            /\ written[p] = 0 /\ TextBy(p) = {}
            /\ pc[p] = "sleep" => out[p] = [i \in 1..sleeps[p] |-> "warn_lock"])

\* ext has held the lock all along: two ticks, two warnings, no line
C4_Witness ==
    \E p \in Writers :
        /\ ~ext_away /\ mode[p] = "lock" /\ pc[p] = "sleep"
        /\ sleeps[p] = 2
        /\ out[p] = <<"warn_lock", "warn_lock">>
        /\ written[p] = 0

\* the file is a sequence of lines: a text and its newline, by the same writer,
\* LINE_SIZE bytes together
WellFramed(f) ==
    /\ Len(f) % 2 = 0
    /\ \A i \in 1..Len(f) : i % 2 = 1 =>
          /\ f[i].kind = "text" /\ f[i + 1].kind = "nl"
          /\ f[i].by = f[i + 1].by
          /\ f[i].len + f[i + 1].len = LINE_SIZE

NumLines(f) == Cardinality({i \in 1..Len(f) : f[i].kind = "nl"})

\* C5 as stated (P2): a single writer, nothing else touching the file, no I/O
\* failure: after N successful attempts the file holds its old lines and N new
\* complete lines, whose timestamps never decrease.
C5_TimestampsNeverDecrease ==
    pc["w1"] = "sleep" =>
        /\ WellFramed(file)
        /\ NumLines(file) = Cardinality(TextBy("old")) + written["w1"]
        /\ \A i, j \in TextBy("w1") : i < j => file[i].ts <= file[j].ts

\* C5 amended: the file only ever grows at its end; after N successful
\* attempts it holds its old lines and N new complete lines, in the order of
\* the attempts (the instants they were stamped at never decrease); the
\* timestamps never decrease among lines stamped on the same local day.
C5_AppendOnly ==
    /\ [][Len(file') >= Len(file) /\ SubSeq(file', 1, Len(file)) = file]_vars
    /\ [](pc["w1"] = "sleep" =>
            /\ WellFramed(file)
            /\ NumLines(file) = Cardinality(TextBy("old")) + written["w1"]
            /\ Cardinality(TextBy("w1")) = written["w1"]
            /\ \A i \in TextBy("old"), j \in TextBy("w1") : i < j
            /\ \A i, j \in TextBy("w1") : i < j =>
                  /\ file[i].at <= file[j].at
                  /\ (file[i].at \div DayLen = file[j].at \div DayLen)
                        => file[i].ts <= file[j].ts)

\* an old line and two new ones, the second stamped after midnight with a
\* smaller timestamp than the first
C5_Witness ==
    /\ pc["w1"] = "sleep" /\ written["w1"] = 2
    /\ TextBy("old") # {}
    /\ \E i, j \in TextBy("w1") : i < j /\ file[i].ts > file[j].ts

\* C6: a writer holds no lock while it sleeps, nor before its try_lock: every
\* lock taken in an attempt is gone when the next sleep begins.
C6_NoLockAcrossSleep ==
    \A p \in Writers :
        pc[p] \in {"init", "sleep", "measure", "trylock"} => Held(p) = {}

\* a locked-mode writer sleeps after a tick that wrote a line and a tick that
\* was skipped for a changed size
C6_Witness ==
    \E p \in Writers :
        /\ pc[p] = "sleep" /\ mode[p] = "lock"
        /\ {"line", "warn_size"} \subseteq Range(out[p])
        /\ written[p] = 1

\* C7: a writer that died of a fatal error holds no lock, so the locks of the
\* dead refuse nobody: a try_lock made when every other writer is dead or not
\* started and ext holds nothing finds no lock at all.
C7_DeadHoldsNoLock ==
    /\ \A p \in Writers : pc[p] = "dead" => Held(p) = {}
    /\ \A q \in Writers :
          (/\ pc[q] = "trylock" /\ Held(Ext) = {}
           /\ \A p \in Writers \ {q} : pc[p] \in {"dead", "init"})
          => locks = {}

\* a locked-mode writer died inside its locked section, its text in the file
\* without a reported write, and the other writer has taken the lock since
C7_Witness ==
    \E p, q \in Writers :
        /\ pc[p] = "dead" /\ mode[p] = "lock"
        /\ TextBy(p) # {} /\ written[p] = 0
        /\ InLockedSection(q)

\* C8: a dead process does nothing more; a step that fails (it has not the
\* effect of the call) is the death of the process; a refused lock and a size
\* mismatch are never fatal: the writer goes back to the sleep, for one period.
C8_ErrorTaxonomy ==
    [][\A p \in Writers :
        /\ pc[p] = "dead" =>
              /\ pc'[p] = "dead" /\ out'[p] = out[p]
              /\ sleeps'[p] = sleeps[p] /\ attempts'[p] = attempts[p]
              /\ written'[p] = written[p]
              /\ {l \in locks' : l.owner = p} = {}
              /\ file' # file => file'[Len(file')].by # p
        /\ (pc[p] \in {"measure", "recheck"} /\ pc'[p] # pc[p]) =>
              \/ pc'[p] = "dead"
              \/ pc[p] = "measure" /\ pc'[p] = "trylock"
                    /\ file_size'[p] = Size(file)
              \/ pc[p] = "recheck" /\ pc'[p] \in {"drop", "write_text"}
        /\ (pc[p] \in {"write_text", "write_nl"} /\ pc'[p] # pc[p]) =>
              \/ pc'[p] = "dead" /\ file' = file
              \/ pc'[p] \in {"write_nl", "flush"} /\ Len(file') = Len(file) + 1
                    /\ file'[Len(file')].by = p
        /\ (pc[p] = "flush" /\ pc'[p] # pc[p]) =>
              \/ pc'[p] = "dead" /\ out'[p] = out[p]
              \/ pc'[p] = "sync" /\ out'[p] = Append(out[p], "line")
        /\ (pc[p] = "sync" /\ pc'[p] # pc[p]) =>
              \/ pc'[p] = "dead" /\ written'[p] = written[p]
              \/ pc'[p] \in {"drop", "sleep"} /\ written'[p] = written[p] + 1
        /\ (pc[p] = "trylock" /\ pc'[p] # pc[p]) =>
              \/ pc'[p] = "recheck"
              \/ pc'[p] = "sleep" /\ wake'[p] = time + interval[p]
                    /\ sleeps'[p] = sleeps[p]
        /\ (pc[p] = "drop" /\ pc'[p] # pc[p]) =>
              /\ pc'[p] = "sleep" /\ wake'[p] = time + interval[p]
              /\ sleeps'[p] = sleeps[p]
      ]_vars

\* one writer is dead; the other sleeps, alive after a tick lost to contention
\* and a tick lost to a changed size
C8_Witness ==
    \E p, q \in Writers :
        /\ pc[p] = "dead"
        /\ pc[q] = "sleep" /\ sleeps[q] = 2
        /\ {"warn_lock", "warn_size"} \subseteq Range(out[q])

\* C9: sleeps and attempts alternate: an attempt starts only after a completed
\* sleep, and at most one is open; k completed sleeps take at least k periods
\* (no catch-up); an unlocked writer that is alive and asleep has written one
\* line per tick; and when no time was lost (every sleep lasted exactly one
\* period, every attempt took none) the lines number time \div interval.
C9_Sequencing ==
    \A p \in Writers : pc[p] # "init" =>
        /\ attempts[p] <= sleeps[p] /\ sleeps[p] <= attempts[p] + 1
        /\ pc[p] = "sleep" => attempts[p] = sleeps[p]
        /\ (sleeps[p] = attempts[p] + 1) =>
               pc[p] = (IF mode[p] = "lock" THEN "measure" ELSE "write_text")
        /\ sleeps[p] * interval[p] <= time
        /\ pc[p] = "sleep" => wake[p] >= (sleeps[p] + 1) * interval[p]
        /\ (mode[p] = "nolock" /\ pc[p] = "sleep") =>
               /\ written[p] = sleeps[p]
               /\ Cardinality(TextBy(p)) = sleeps[p]
               /\ (wake[p] = (sleeps[p] + 1) * interval[p] /\ time < wake[p])
                     => written[p] = time \div interval[p]

\* an unlocked writer with a period of 2, on schedule, at time 3: one line
C9_Witness ==
    \E p \in Writers :
        /\ mode[p] = "nolock" /\ pc[p] = "sleep"
        /\ interval[p] = 2 /\ time = 3
        /\ wake[p] = (sleeps[p] + 1) * interval[p]
        /\ written[p] = 1 /\ Cardinality(TextBy(p)) = 1

\* C10 (P5): at the lock request the writer's step is enabled whatever locks
\* the others hold, and under fair scheduling of its steps every writer at
\* the lock request reaches the next sleep (or dies of an I/O failure).
C10_NoBlocking ==
    /\ [](\A p \in Writers : pc[p] = "trylock" => ENABLED write_lock_try(p))
    /\ \A p \in Writers :
          (pc[p] = "trylock") ~> (pc[p] \in {"sleep", "dead"})

\* ext has held its lock all along, and the writer is asleep again, its
\* last tick ended by the contention warning
C10_Witness ==
    \E p \in Writers :
        /\ pc[p] = "sleep" /\ time < wake[p]
        /\ out[p] # <<>> /\ out[p][Len(out[p])] = "warn_lock"
        /\ ExtHead \in locks /\ ~ext_away

\* the process passed through read: tail was called
EnteredRead(p) == "following" \in Range(out[p])

\* C11 as stated: exit status 1 is produced only when the dispatch falls
\* through without entering read or write
C11_ExitOneOnlyOnFallThrough ==
    \A p \in Writers : pc[p] = "exit1" => ~EnteredRead(p)

\* C11, amended: read on a path that is not a regular file prints the "is not
\* a file" message, never calls tail and exits with status 1; tail is called
\* only on a regular file; exit status 1 is reached from the fall-through and
\* from a tail that returned, and never from write
C11_Dispatch ==
    \A p \in Writers :
        /\ (mode[p] = "read" /\ ~is_file) =>
               (pc[p] = "exit1" /\ out[p] = <<"not_a_file">>)
        /\ EnteredRead(p) => (is_file /\ mode[p] = "read")
        /\ pc[p] = "exit1" =>
               /\ mode[p] = "read"
               /\ out[p] \in {<<"not_a_file">>, <<"following">>}
               /\ attempts[p] = 0 /\ sleeps[p] = 0
        /\ pc[p] \in {"init", "sleep", "measure", "trylock", "recheck",
                      "write_text", "write_nl", "flush", "sync", "drop",
                      "dead"} => mode[p] # "read"

\* read was selected on a path that is not a regular file, and the process is
\* gone with status 1
C11_Witness ==
    pc["w1"] = "exit1" /\ ~is_file /\ out["w1"] = <<"not_a_file">>

\* C12 as stated (P1, line length): at every instant, those inside a leap
\* second included, the text is the 12 characters HH:MM:SS.mmm, and with its
\* newline the line is LINE_SIZE bytes long
C12_LineLength ==
    now_str # <<>> =>
        /\ Len(now_str) = NOW_STR_LEN
        /\ Len(now_str) + NEWLINE_LEN = LINE_SIZE

\* q runs, or ran, the loop of write_nolock on the file
Unlocked(q) ==
    /\ mode[q] = "nolock"
    /\ pc[q] \notin {"main", "init"}
    /\ ~(pc[q] = "dead" /\ sleeps[q] = 0)

\* all writers on the file are locked-mode writers
OnlyLockedWriters == \A q \in Writers : ~Unlocked(q)

\* the offset in the file of its i-th piece
Offset(i) == Size(SubSeq(file, 1, i - 1))

\* the number of pieces of its line that p, inside write_line, has written
LinePieces(p) == CASE pc[p] = "write_nl" -> 1
                   [] pc[p] \in {"flush", "sync"} -> 2
                   [] OTHER -> 0

C14_FreshMeasurement ==
    [][\A p \in Writers :
        /\ (pc[p] # "trylock" /\ pc'[p] = "trylock") =>
               (pc[p] = "measure" /\ file_size'[p] = Size(file))
        /\ (pc[p] # "measure" /\ pc'[p] = "measure") =>
               (pc[p] = "sleep" /\ time >= wake[p] /\ sleeps'[p] = sleeps[p] + 1)
        /\ (pc[p] = "trylock" /\ pc'[p] = "trylock") =>
               file_size'[p] = file_size[p]
        /\ (Held(p) = {} /\ Held(p)' # {}) =>
               /\ pc[p] = "trylock"
               /\ Held(p)' = {[owner |-> p, off |-> LOCK_START,
                               len |-> file_size[p] + LINE_SIZE]}
      ]_vars

\* a writer whose first tick was skipped is about to ask for the lock in its
\* next tick, with the size the file has grown to meanwhile
C14_Witness ==
    /\ pc["w1"] = "trylock" /\ sleeps["w1"] = 2
    /\ out["w1"] = <<"warn_lock">>
    /\ file_size["w1"] = LINE_SIZE /\ Size(file) = LINE_SIZE

\* the texts, the newlines and the echoes of p so far
Texts(p) == Cardinality(TextBy(p))
Newlines(p) ==
    Cardinality({i \in 1..Len(file) : file[i].by = p /\ file[i].kind = "nl"})
Echoes(p) == Cardinality({i \in 1..Len(out[p]) : out[p][i] = "line"})

\* C15: write_line writes, then flushes, then syncs, and reports success
\* only after the three: a step that reports a success is a sync that
\* succeeded, the sync comes after the flush, the flush after the write of
\* the whole line; the echo is made by the flush step that succeeded, once;
\* a flush or a sync that fails ends the process with nothing reported
C15_DurabilityOrder ==
    [][\A p \in Writers :
        /\ written'[p] # written[p] =>
               /\ pc[p] = "sync" /\ pc'[p] # "dead"
               /\ written'[p] = written[p] + 1
               /\ Echoes(p) = written[p] + 1
               /\ Newlines(p) = Echoes(p) /\ Texts(p) = Newlines(p)
        /\ (pc[p] # "sync" /\ pc'[p] = "sync") =>
               (pc[p] = "flush" /\ Echoes(p)' = Echoes(p) + 1)
        /\ (pc[p] # "flush" /\ pc'[p] = "flush") =>
               (pc[p] = "write_nl" /\ Newlines(p)' = Newlines(p) + 1)
        /\ (pc[p] # "write_nl" /\ pc'[p] = "write_nl") =>
               (pc[p] = "write_text" /\ Texts(p)' = Texts(p) + 1)
        /\ out'[p] # out[p] /\ Echoes(p)' # Echoes(p) =>
               /\ pc[p] = "flush" /\ pc'[p] = "sync"
               /\ Echoes(p) = written[p] /\ Newlines(p) = Echoes(p) + 1
        /\ (pc[p] \in {"flush", "sync"} /\ pc'[p] = "dead") =>
               (written'[p] = written[p] /\ out'[p] = out[p])
        /\ pc[p] = "dead" => written'[p] = written[p]
      ]_vars

\* the line is in the file and on standard output, the sync failed: the
\* attempt is not reported
C15_Witness ==
    /\ pc["w1"] = "dead" /\ written["w1"] = 0
    /\ Echoes("w1") = 1 /\ Newlines("w1") = 1 /\ Texts("w1") = 1

\* the skips of p so far: its warnings
Skips(p) ==
    Cardinality({i \in 1..Len(out[p]) : out[p][i] \in {"warn_lock", "warn_size"}})

\* the ticks of p that have come to their end: written or skipped
Outcomes(p) == written[p] + Skips(p)

\* the account of a locked-mode writer: one measurement before the lock for
\* each sleep, one outcome for each attempt that is over, at most one line
\* for each attempt, and no lock outside the locked section
OneAttemptPerTick(p) ==
    /\ attempts[p] = sleeps[p] - (IF pc[p] = "measure" THEN 1 ELSE 0)
    /\ Outcomes(p) = attempts[p] -
          (IF pc[p] \in {"trylock", "recheck", "write_text", "write_nl",
                         "flush", "sync"} THEN 1 ELSE 0)
          \/ (pc[p] = "dead" /\ Outcomes(p) = attempts[p] - 1)
    /\ Texts(p) <= attempts[p] /\ Texts(p) <= written[p] + 1
    /\ pc[p] \in {"sleep", "measure", "trylock"} => Held(p) = {}

\* C16: no retry.  In every tick a locked-mode writer measures once before
\* the lock, asks for the lock once and writes at most once; a skip, by
\* contention or by race, is followed by the sleep and by nothing else (the
\* race skip releases the lock on the way); the tick after it measures the
\* size anew and starts with no lock held
C16_NoRetry ==
    /\ [](\A p \in Writers : mode[p] = "lock" => OneAttemptPerTick(p))
    /\ [][\A p \in Writers :
           /\ Skips(p)' # Skips(p) =>
                  /\ Skips(p)' = Skips(p) + 1
                  /\ pc[p] \in {"trylock", "recheck"}
                  /\ pc[p] = "trylock" => (pc'[p] = "sleep" /\ Held(p)' = {})
                  /\ pc[p] = "recheck" => pc'[p] = "drop"
           /\ (pc[p] = "drop" /\ pc'[p] # "drop") =>
                  (pc'[p] = "sleep" /\ Held(p)' = {}
                   /\ wake'[p] = time + interval[p])
           /\ (pc[p] = "sleep" /\ mode[p] = "lock" /\ pc'[p] # "sleep") =>
                  (pc'[p] = "measure" /\ time >= wake[p])
           /\ (pc[p] = "measure" /\ pc'[p] \notin {"measure", "dead"}) =>
                  (pc'[p] = "trylock" /\ file_size'[p] = Size(file))
         ]_vars

\* a writer skipped by contention in its first tick and by race in its second
\* is back in the sleep: two ticks, two attempts, two skips, nothing written
C16_Witness ==
    /\ pc["w1"] = "sleep" /\ mode["w1"] = "lock"
    /\ out["w1"] = <<"warn_lock", "warn_size">>
    /\ sleeps["w1"] = 2 /\ attempts["w1"] = 2 /\ written["w1"] = 0
    /\ Held("w1") = {}

\* C17: the lock is only cooperative.  An unlocked-mode writer never holds,
\* requests or tests the lock and never skips: it is in the sleep or inside
\* write_line, every sleep that is over starts an append, and back in the
\* sleep it has written once for each tick, whoever holds the lock
C17_LockIsCooperative ==
    \A p \in Writers :
        Unlocked(p) =>
            /\ Held(p) = {}
            /\ pc[p] \in {"sleep", "write_text", "write_nl", "flush", "sync",
                          "dead"}
            /\ Skips(p) = 0
            /\ attempts[p] = sleeps[p] - (IF pc[p] = "write_text" THEN 1 ELSE 0)
            /\ pc[p] = "sleep" => written[p] = sleeps[p]

\* the execution C17 announces: the locked-mode writer w1 found the size
\* unchanged under its lock, the unlocked-mode writer w2 then appended a whole
\* line, and the text w1 has just written under its lock starts behind it,
\* not at the S that w1 measured
C17_Witness ==
    /\ mode["w1"] = "lock" /\ pc["w1"] = "write_nl" /\ Held("w1") # {}
    /\ Unlocked("w2") /\ written["w2"] = 1
    /\ Len(file) = 3 /\ file[1].by = "w2" /\ file[2].by = "w2"
    /\ file[3].by = "w1"
    /\ file_size["w1"] = 0 /\ Offset(3) = LINE_SIZE

\* the piece i of the file is a text that its writer's newline does not follow
Partial(i) ==
    /\ file[i].kind = "text"
    /\ \/ i = Len(file)
       \/ file[i + 1].kind # "nl"
       \/ file[i + 1].by # file[i].by

\* the piece i of the file is a newline that ends the text of the same writer
EndsLine(i) ==
    /\ file[i].kind = "nl"
    /\ i > 1 /\ file[i - 1].kind = "text" /\ file[i - 1].by = file[i].by

\* the writers that died with a whole line in the file that they never reported
DiedUnreported ==
    {p \in Writers : pc[p] = "dead" /\ Newlines(p) = written[p] + 1}

\* C18 as stated: with locked-mode writers only the file is complete lines and
\* at most one partial line, the last, of the writer holding the lock; when no
\* writer holds the lock the lines are as many as the successful writes
C18_Framing ==
    OnlyLockedWriters =>
        /\ \A i \in 1..Len(file) :
              /\ file[i].kind = "nl" => EndsLine(i)
              /\ Partial(i) => (i = Len(file) /\ Held(file[i].by) # {})
        /\ (\A p \in Writers : Held(p) = {}) =>
              NumLines(file) = Sum(written, Writers)

\* C18 amended: the same, but for the writers that an I/O failure killed
\* inside write_line: a partial line belongs to the writer holding the lock
\* and is the last piece of the file, or is the last text of a dead writer;
\* when no writer holds the lock the lines are the successful writes and one
\* more for each writer that died after its newline, before its report
C18_FramingUnlessKilled ==
    OnlyLockedWriters =>
        /\ \A i \in 1..Len(file) :
              /\ file[i].kind = "nl" => EndsLine(i)
              /\ Partial(i) =>
                    \/ /\ i = Len(file)
                       /\ Held(file[i].by) # {} /\ pc[file[i].by] = "write_nl"
                    \/ /\ pc[file[i].by] = "dead"
                       /\ i = CHOOSE j \in TextBy(file[i].by) :
                                 \A k \in TextBy(file[i].by) : k <= j
        /\ \A p \in Writers : Newlines(p) \in {written[p], written[p] + 1}
        /\ (\A p \in Writers : Held(p) = {}) =>
              NumLines(file) = Sum(written, Writers) + Cardinality(DiedUnreported)

\* two locked-mode writers, none dead: a complete line of w2, and behind it
\* the text of w1, which holds the lock and has its newline still to write
C18_Witness ==
    /\ OnlyLockedWriters /\ mode["w1"] = "lock" /\ mode["w2"] = "lock"
    /\ pc["w1"] = "write_nl" /\ pc["w2"] = "sleep" /\ written["w2"] = 1
    /\ Len(file) = 3 /\ Partial(3) /\ file[3].by = "w1"
    /\ Held("w1") # {}

\* the successful writes reported so far, over all writers
TotalWritten == Sum(written, Writers)

\* no attempt is in flight: every writer is in its sleep, or not started
Rested == \A q \in Writers : pc[q] \in {"init", "sleep"}

\* the sleep of p ends within the run of the clock, and a tick is left for it
CanWake(p) ==
    /\ pc[p] = "sleep" /\ mode[p] = "lock"
    /\ wake[p] <= MaxTime /\ TotalSleeps < MaxTicks

\* C19: system-wide progress.  With locked-mode writers only, no I/O failure
\* and weak fairness on the steps of every writer: whenever the writers are
\* between attempts and one of them still has a tick to come, a further
\* successful write is completed in the end, by this writer or by another; a
\* writer that has passed the recheck completes its write; and a tick is
\* skipped only because another writer holds the lock or because the file has
\* grown since the measurement, so a skip of one writer is the progress of
\* another
C19_Progress ==
    /\ \A n \in 0..MaxTicks :
          (Rested /\ TotalWritten = n /\ \E p \in Writers : CanWake(p))
              ~> (TotalWritten > n)
    /\ \A p \in Writers : \A n \in 0..MaxTicks :
          (pc[p] \in {"write_text", "write_nl", "flush", "sync"}
             /\ written[p] = n) ~> (written[p] > n)
    /\ [][\A p \in Writers :
           Skips(p)' # Skips(p) =>
               \/ pc[p] = "trylock" /\ \E q \in Writers \ {p} : Held(q) # {}
               \/ pc[p] = "recheck" /\ Size(file) > file_size[p]
         ]_vars

\* w1 was skipped in each of its two ticks and is back in the sleep with
\* nothing written, while w2 completed a write
C19_Witness ==
    /\ OnlyLockedWriters /\ Rested
    /\ sleeps["w1"] = 2 /\ Skips("w1") = 2 /\ written["w1"] = 0
    /\ written["w2"] = 1

====
